---- MODULE Spec2Model ----
(***************************************************************************)
(* Household budget app (src/app.py): the per-period workbook file, the    *)
(* transaction ledger, recurring rules, budgets and the forecast.  One     *)
(* action per user interaction (one rerun of the script with at most one   *)
(* button pressed) plus the clock and the file's environment.  The state   *)
(* is the clock, the workbook of the current period (the files of earlier  *)
(* periods are never opened again) and a record of the last rerun.  Three  *)
(* specifications run the same handlers over different sessions: Spec      *)
(* (ledger, rules, apply, forecast), SpecBudget (ledger and budgets) and   *)
(* SpecStorage (every save, with the file open to damage).                 *)
(*                                                                         *)
(* Encodings.  A date is <<year, month, day>>.  A "YYYY-MM" month string   *)
(* is <<year, month>>; the strings are fixed width, so their order as text *)
(* is the lexicographic order of the pair (StrLess).  A pandas monthly     *)
(* Period is its ordinal year*12 + month-1.                                *)
(***************************************************************************)
EXTENDS Integers, Sequences, FiniteSets, TLC

VARIABLES now, file, last

vars == <<now, file, last>>

----------------------------------------------------------------------------
(* Bounds of the model and the input sets of the forms.                    *)

MaxRows == 3
MaxTicks == 1

StartDate == <<2024, 11, 15>>

Categories == {"Home", "Food"}
Amounts == {10, 25}

SheetNames == {"Transactions", "RecurringRules", "Budgets"}

SliderMin == 1
SliderMax == 12

----------------------------------------------------------------------------
(* Dates, month strings and periods.                                       *)

\* df["Date"].dt.to_period("M").astype(str)
MonthOf(date) == <<date[1], date[2]>>

\* order of two "YYYY-MM" strings as text
StrLess(a, b) == a[1] < b[1] \/ (a[1] = b[1] /\ a[2] < b[2])

\* pd.Period(month, freq="M"): the period's ordinal
PeriodOrdinal(month) == month[1] * 12 + (month[2] - 1)

\* str(period)
PeriodStr(ord) == <<ord \div 12, (ord % 12) + 1>>

\* the month number advanced without a carry into the year
PeriodAddNoCarry(month, i) == <<month[1], month[2] + i>>

\* str(pd.Period(month, freq="M") + i)
PeriodAdd(month, i) == PeriodStr(PeriodOrdinal(month) + i)

\* pd.to_datetime(f"{target_month}-01")
FirstDay(month) == <<month[1], month[2], 1>>

\* datetime.today()
Today == now

\* the period the clock is in, as get_monthly_filename names it
get_monthly_filename == <<now[1], now[2]>>

----------------------------------------------------------------------------
(* Storage: the workbook of the current period.                            *)

NoSheet == [present |-> FALSE, rows |-> <<>>]

AbsentFile == [status |-> "absent", sheets |-> [s \in SheetNames |-> NoSheet]]

\* pd.read_excel(filename, sheet_name=...): "ok", "ValueError" or "OtherError"
ReadExcel(f, sheet) ==
    IF f.status = "unrecognized" THEN [outcome |-> "ValueError", rows |-> <<>>]
    ELSE IF f.status = "badzip" THEN [outcome |-> "OtherError", rows |-> <<>>]
    ELSE IF ~f.sheets[sheet].present THEN [outcome |-> "ValueError", rows |-> <<>>]
    ELSE [outcome |-> "ok", rows |-> f.sheets[sheet].rows]

\* the exceptions load_data catches
CaughtByLoad == {"ValueError"}

\* load_data(sheet_name): [raised, rows]
load_data(f, sheet) ==
    IF f.status = "absent" THEN [raised |-> FALSE, rows |-> <<>>]
    ELSE LET r == ReadExcel(f, sheet) IN
         IF r.outcome = "ok" THEN [raised |-> FALSE, rows |-> r.rows]
         ELSE IF r.outcome \in CaughtByLoad THEN [raised |-> FALSE, rows |-> <<>>]
         ELSE [raised |-> TRUE, rows |-> <<>>]

\* a writer opened in mode "w" on an existing file: the other sheets are lost
WrittenSheetsOnly(old, rows, sheet) ==
    [s \in SheetNames |-> IF s = sheet THEN [present |-> TRUE, rows |-> rows]
                          ELSE NoSheet]

\* the sheets of the file after to_excel(writer, sheet_name=...)
WrittenSheets(old, rows, sheet) ==
    [old EXCEPT ![sheet] = [present |-> TRUE, rows |-> rows]]

\* save_data(df, sheet_name): [raised, file]
save_data(f, rows, sheet) ==
    IF f.status # "absent"
    THEN IF f.status = "ok"
         THEN [raised |-> FALSE,
               file |-> [status |-> "ok", sheets |-> WrittenSheets(f.sheets, rows, sheet)]]
         ELSE [raised |-> TRUE, file |-> f]
    ELSE [raised |-> FALSE,
          file |-> [status |-> "ok",
                    sheets |-> WrittenSheets(AbsentFile.sheets, rows, sheet)]]

----------------------------------------------------------------------------
(* Transaction engine.                                                     *)

TxRow(date, type, name, category, amount) ==
    [Date |-> date, Type |-> type, Name |-> name, Category |-> category,
     Amount |-> amount]

\* the frames concatenated in the wrong order
ConcatFront(rows, row) == <<row>> \o rows

\* pd.concat([df, new_row], ignore_index=True)
Concat(rows, row) == Append(rows, row)

\* add_transaction(date, t_type, name, category, amount): [raised, file]
add_transaction(f, date, type, name, category, amount) ==
    LET df == load_data(f, "Transactions") IN
    IF df.raised THEN [raised |-> TRUE, file |-> f]
    ELSE save_data(f, Concat(df.rows, TxRow(date, type, name, category, amount)),
                  "Transactions")

WithMonth(row) ==
    [Date |-> row.Date, Type |-> row.Type, Name |-> row.Name,
     Category |-> row.Category, Amount |-> row.Amount, Month |-> MonthOf(row.Date)]

\* load_transactions_with_month(): [raised, rows]
load_transactions_with_month(f) ==
    LET df == load_data(f, "Transactions") IN
    IF df.raised \/ df.rows = <<>> THEN df
    ELSE [raised |-> FALSE, rows |-> [i \in 1..Len(df.rows) |-> WithMonth(df.rows[i])]]

----------------------------------------------------------------------------
(* The views the script derives on every rerun.                            *)

Range(seq) == {seq[i] : i \in 1..Len(seq)}

\* sorted(...) of a collection of month strings
RECURSIVE Sorted(_)
Sorted(set) ==
    IF set = {} THEN <<>>
    ELSE LET m == CHOOSE x \in set : \A o \in set : ~StrLess(o, x)
         IN  <<m>> \o Sorted(set \ {m})

\* sorted(transactions["Month"].unique()), line 182
Months(txm) == Sorted({txm[i].Month : i \in 1..Len(txm)})

\* max(...) of a non-empty collection of month strings
MaxMonth(set) == CHOOSE m \in set : \A o \in set : ~StrLess(m, o)

\* lines 259-263: the months offered as apply targets
TargetMonths(txm) ==
    LET months == Months(txm)
        next_month == PeriodAdd(MaxMonth(Range(months)), 1)
    IN  IF next_month \notin Range(months) THEN Append(months, next_month)
        ELSE months

\* a test for the presence of the flag, not for its value
HasActiveFlag(rule) == rule.Active \in BOOLEAN

\* truth value of rule["Active"]
IsActive(rule) == rule.Active

\* the keys taken from the whole ledger, without the filter on the month
KeysOfAnyMonth(txm, target_month) ==
    {<<target_month, txm[i].Name, txm[i].Type>> : i \in 1..Len(txm)}

\* get_existing_recurring_keys(transactions_df, target_month)
get_existing_recurring_keys(txm, target_month) ==
    LET month_tx == SelectSeq(txm, LAMBDA row : row.Month = target_month)
    IN  {<<month_tx[i].Month, month_tx[i].Name, month_tx[i].Type>> :
            i \in 1..Len(month_tx)}

\* the key of a rule in the preview loop, line 272
RuleKey(target_month, rule) == <<target_month, rule.Name, rule.Type>>

\* the preview row dated today, not on the first day of the target month
PreviewRowToday(target_month, rule) ==
    [Date |-> Today, Type |-> rule.Type, Name |-> rule.Name,
     Category |-> rule.Category, Amount |-> rule.Amount]

\* lines 274-280: the preview row of a rule
PreviewRow(target_month, rule) ==
    [Date |-> FirstDay(target_month), Type |-> rule.Type, Name |-> rule.Name,
     Category |-> rule.Category, Amount |-> rule.Amount]

\* lines 267-280: the indices of the rules the preview loop keeps, in order
PreviewRules(txm, rules, target_month) ==
    LET existing_keys == get_existing_recurring_keys(txm, target_month)
        Keep[i \in 0..Len(rules)] ==
            IF i = 0 THEN <<>>
            ELSE IF IsActive(rules[i])
                    /\ RuleKey(target_month, rules[i]) \notin existing_keys
                 THEN Append(Keep[i - 1], i)
                 ELSE Keep[i - 1]
    IN  Keep[Len(rules)]

\* preview_rows, lines 268-282
Preview(txm, rules, target_month) ==
    LET kept == PreviewRules(txm, rules, target_month)
    IN  [k \in 1..Len(kept) |-> PreviewRow(target_month, rules[kept[k]])]

\* the loop left after its first row
ApplyRowsFirstOnly(r, rows) ==
    IF rows = <<>> \/ r.raised THEN r
    ELSE add_transaction(r.file, Head(rows).Date, Head(rows).Type, Head(rows).Name,
                        Head(rows).Category, Head(rows).Amount)

\* lines 289-290: add_transaction for every preview row, in order
RECURSIVE ApplyRows(_, _)
ApplyRows(r, rows) ==
    IF rows = <<>> \/ r.raised THEN r
    ELSE ApplyRows(add_transaction(r.file, Head(rows).Date, Head(rows).Type,
                                  Head(rows).Name, Head(rows).Category,
                                  Head(rows).Amount),
                   Tail(rows))

\* lines 102-108: the forecast row of a rule
ForecastRow(future_month, rule) ==
    [Month |-> future_month, Type |-> rule.Type, Name |-> rule.Name,
     Category |-> rule.Category, Amount |-> rule.Amount]

\* lines 100-108: the rows of one future month
ForecastMonthRows(future_month, rules) ==
    LET active == SelectSeq(rules, IsActive)
    IN  [k \in 1..Len(active) |-> ForecastRow(future_month, active[k])]

\* the month the forecast starts after, line 94
LastMonth(txm) == MaxMonth({txm[i].Month : i \in 1..Len(txm)})

\* generate_forecast(transactions_df, rules_df, months_ahead)
generate_forecast(txm, rules, months_ahead) ==
    IF txm = <<>> \/ rules = <<>> THEN <<>>
    ELSE LET last_month == LastMonth(txm)
             Rows[i \in 0..months_ahead] ==
                 IF i = 0 THEN <<>>
                 ELSE Rows[i - 1] \o ForecastMonthRows(PeriodAdd(last_month, i), rules)
         IN  Rows[months_ahead]

\* the rows of the selected month, whatever their type
MonthTxOfAnyType(txm, selected_month) ==
    SelectSeq(txm, LAMBDA row : row.Month = selected_month)

\* lines 185-187: the Expense rows of the selected month
ExpenseTx(txm, selected_month) ==
    SelectSeq(txm, LAMBDA row : row.Month = selected_month /\ row.Type = "Expense")

RECURSIVE SumAmount(_)
SumAmount(rows) == IF rows = <<>> THEN 0 ELSE Head(rows).Amount + SumAmount(Tail(rows))

\* expense_tx.groupby("Category")["Amount"].sum(), line 244
Actuals(expense_tx) ==
    [c \in {expense_tx[i].Category : i \in 1..Len(expense_tx)} |->
        SumAmount(SelectSeq(expense_tx, LAMBDA row : row.Category = c))]

\* lines 241-247: the comparison table
Comparison(budgets, txm, selected_month) ==
    LET month_budgets == SelectSeq(budgets, LAMBDA b : b.Month = selected_month)
        actuals == Actuals(ExpenseTx(txm, selected_month))
        Amount(b) == IF b.Category \in DOMAIN actuals THEN actuals[b.Category] ELSE 0
    IN  [k \in 1..Len(month_budgets) |->
            [Month |-> month_budgets[k].Month,
             Category |-> month_budgets[k].Category,
             Budget |-> month_budgets[k].Budget,
             Amount |-> Amount(month_budgets[k]),
             Variance |-> month_budgets[k].Budget - Amount(month_budgets[k])]]

\* the order of two dates
DateLess(a, b) ==
    \/ a[1] < b[1]
    \/ a[1] = b[1] /\ a[2] < b[2]
    \/ a[1] = b[1] /\ a[2] = b[2] /\ a[3] < b[3]

----------------------------------------------------------------------------
(* Rows of the other two collections and the edits of the data editors.    *)

RuleRow(name, type, category, amount, active) ==
    [Name |-> name, Type |-> type, Category |-> category, Amount |-> amount,
     Active |-> active]

BudgetRow(month, category, budget) ==
    [Month |-> month, Category |-> category, Budget |-> budget]

RemoveAt(rows, i) == [k \in 1..(Len(rows) - 1) |-> IF k < i THEN rows[k] ELSE rows[k + 1]]

\* the rule grid (num_rows="dynamic") after one edit: a row deleted or the
\* Active box of a row toggled
EditedRules(rows, i, edit) ==
    IF i \notin 1..Len(rows) THEN rows
    ELSE IF edit = "delete" THEN RemoveAt(rows, i)
    ELSE IF edit = "toggle" THEN [rows EXCEPT ![i].Active = ~rows[i].Active]
    ELSE rows

\* the budget grid (num_rows="dynamic") after one edit: a row deleted, the
\* Category cell of a row rewritten, or nothing changed
EditedBudgets(rows, i, edit) ==
    IF i \notin 1..Len(rows) THEN rows
    ELSE IF edit = "delete" THEN RemoveAt(rows, i)
    ELSE IF edit = "keep" THEN rows
    ELSE [rows EXCEPT ![i].Category = edit]

\* a row put into a log sorted by Date, latest first, behind the rows of
\* its own date
InsertByDate(sorted, row) ==
    LET before == SelectSeq(sorted, LAMBDA r : ~DateLess(r.Date, row.Date))
        after == SelectSeq(sorted, LAMBDA r : DateLess(r.Date, row.Date))
    IN  before \o <<row>> \o after

\* tx_log.sort_values("Date", ascending=False), line 331: rows of one date
\* keep their order (the sort of a table this small is an insertion sort)
RECURSIVE SortValuesDesc(_)
SortValuesDesc(rows) ==
    IF rows = <<>> THEN <<>>
    ELSE InsertByDate(SortValuesDesc(SubSeq(rows, 1, Len(rows) - 1)), rows[Len(rows)])

\* the transaction grid when it is saved: the sorted log it shows, as it is
\* ("keep") or with the Category cell of a row rewritten
EditedLogs(rows, i, edit) ==
    LET shown == SortValuesDesc(rows)
    IN  IF i \in 1..Len(shown) /\ edit # "keep"
        THEN [shown EXCEPT ![i].Category = edit]
        ELSE shown

----------------------------------------------------------------------------
(* The interaction history: what the last rerun of the script did.         *)

NoMonth == <<0, 0>>

\* op: the handler that ran; raised: it ended in an exception; button,
\* confirm: the widgets of the apply section; target: the month the rules
\* were applied to (NoMonth when none were); sheet, rows: the
\* arguments of the last save_data call of the rerun ("none" when there
\* was none)
Did(op, raised, target, button, confirm, sheet, rows) ==
    [op |-> op, raised |-> raised, target |-> target, button |-> button,
     confirm |-> confirm, sheet |-> sheet, rows |-> rows]

Stored(sheet) == file.sheets[sheet].rows

\* the transaction and budget rows the workbook holds, which the guards of
\* the handlers keep within MaxRows
RowsStored == Len(Stored("Transactions")) + Len(Stored("Budgets"))

\* a rule of this name and type is in the rule sheet already (the sessions
\* enter each rule once)
HasRule(name, type) ==
    \E i \in 1..Len(Stored("RecurringRules")) :
        /\ Stored("RecurringRules")[i].Name = name
        /\ Stored("RecurringRules")[i].Type = type

\* line 165
rules_df == load_data(file, "RecurringRules")

\* line 179
transactions == load_transactions_with_month(file)

\* line 226
budgets_df == load_data(file, "Budgets")

\* line 326
tx_log == load_data(file, "Transactions")

Init ==
    /\ now = StartDate
    /\ file = AbsentFile
    /\ last = Did("start", FALSE, NoMonth, FALSE, FALSE, "none", <<>>)

\* the forms' add_transaction call, lines 124-125 and 136-137
SubmitTransaction(op, type, name, category, amount) ==
    LET r == add_transaction(file, Today, type, name, category, amount) IN
    /\ RowsStored < MaxRows
    /\ file' = r.file
    /\ last' = Did(op, r.raised, NoMonth, TRUE, FALSE,
                   IF r.raised THEN "none" ELSE "Transactions",
                   IF r.raised THEN <<>> ELSE r.file.sheets["Transactions"].rows)
    /\ UNCHANGED now

\* "Add Income" form, lines 118-126
AddIncome(name, category, amount) ==
    SubmitTransaction("add_income", "Income", name, category, amount)

\* "Add Expense" form, lines 130-138
AddExpense(name, category, amount) ==
    SubmitTransaction("add_expense", "Expense", name, category, amount)

\* a handler that loads one sheet, changes the rows and saves them
SaveRows(op, df, rows, sheet) ==
    LET r == IF df.raised THEN [raised |-> TRUE, file |-> file]
             ELSE save_data(file, rows, sheet) IN
    /\ file' = r.file
    /\ last' = Did(op, r.raised, NoMonth, TRUE, FALSE,
                   IF r.raised THEN "none" ELSE sheet,
                   IF r.raised THEN <<>> ELSE rows)
    /\ UNCHANGED now

\* "Save Recurring Rule" form, lines 146-161
SaveRecurringRule(name, type, category, amount, active) ==
    LET df == load_data(file, "RecurringRules") IN
    /\ SaveRows("save_rule", df,
                Concat(df.rows, RuleRow(name, type, category, amount, active)),
                "RecurringRules")

\* "Save Rule Changes", lines 165-171
SaveRuleChanges(i, edit) ==
    /\ ~rules_df.raised
    /\ rules_df.rows # <<>>
    /\ i \in 1..Len(rules_df.rows)
    /\ SaveRows("save_rule_changes", rules_df, EditedRules(rules_df.rows, i, edit),
                "RecurringRules")

\* "Save Budget" form, lines 210-224
SaveBudget(budget_month, category, amount) ==
    LET df == load_data(file, "Budgets") IN
    /\ ~rules_df.raised /\ ~transactions.raised
    /\ transactions.rows # <<>>
    /\ budget_month \in Range(Months(transactions.rows))
    /\ RowsStored < MaxRows
    /\ SaveRows("save_budget", df,
                Concat(df.rows, BudgetRow(budget_month, category, amount)),
                "Budgets")

\* "Save Budget Changes", lines 226-232
SaveBudgetChanges(i, edit) ==
    /\ ~rules_df.raised /\ ~transactions.raised /\ ~budgets_df.raised
    /\ budgets_df.rows # <<>>
    /\ i \in 1..Len(budgets_df.rows)
    /\ SaveRows("save_budget_changes", budgets_df,
                EditedBudgets(budgets_df.rows, i, edit), "Budgets")

\* the button alone
ButtonOnly(button, confirm) == button

\* the condition of line 288
ApplyGate(button, confirm) == button /\ confirm

\* "Apply Recurring Items to Month", lines 258-291: one rerun with the
\* target month selected, the checkbox as it stands and the button pressed
\* or not
ApplyRecurring(target_month, button, confirm) ==
    /\ ~rules_df.raised /\ ~transactions.raised /\ ~budgets_df.raised
    /\ rules_df.rows # <<>> /\ transactions.rows # <<>>
    /\ target_month \in Range(TargetMonths(transactions.rows))
    /\ LET preview_df == Preview(transactions.rows, rules_df.rows, target_month)
           applies == ApplyGate(button, confirm)
           r == IF applies
                THEN ApplyRows([raised |-> FALSE, file |-> file], preview_df)
                ELSE [raised |-> FALSE, file |-> file]
       IN  /\ preview_df # <<>>
           /\ applies => RowsStored + Len(preview_df) <= MaxRows
           /\ file' = r.file
           /\ last' = Did("apply", r.raised,
                          IF applies THEN target_month ELSE NoMonth,
                          button, confirm,
                          IF applies /\ ~r.raised THEN "Transactions" ELSE "none",
                          IF applies /\ ~r.raised
                          THEN r.file.sheets["Transactions"].rows ELSE <<>>)
    /\ UNCHANGED now

\* "Save Transaction Changes", lines 326-335
SaveTransactionChanges(i, edit) ==
    /\ ~rules_df.raised /\ ~transactions.raised /\ ~budgets_df.raised
    /\ ~tx_log.raised
    /\ tx_log.rows # <<>>
    /\ i \in 1..Len(tx_log.rows)
    /\ SaveRows("save_tx_changes", tx_log, EditedLogs(tx_log.rows, i, edit),
                "Transactions")

\* the calendar month ends: get_monthly_filename names a new file
Tick ==
    /\ PeriodOrdinal(get_monthly_filename) - PeriodOrdinal(MonthOf(StartDate)) < MaxTicks
    /\ now' = FirstDay(PeriodAdd(get_monthly_filename, 1))
    /\ file' = AbsentFile
    /\ last' = Did("tick", FALSE, NoMonth, FALSE, FALSE, "none", <<>>)

\* the period's file is damaged outside the app: no longer a workbook
\* ("unrecognized") or a broken zip archive ("badzip")
DamageFile(kind) ==
    /\ file.status = "ok"
    /\ file' = [status |-> kind, sheets |-> AbsentFile.sheets]
    /\ last' = Did("damage", FALSE, NoMonth, FALSE, FALSE, "none", <<>>)
    /\ UNCHANGED now

\* the months the sessions select: the calendar month and the one after it
SelectedMonths == {get_monthly_filename, PeriodAdd(get_monthly_filename, 1)}

GridRows == 1..MaxRows

\* the name and type of the rules entered in the ledger-and-rules sessions
RuleTemplates == {<<"Rent", "Expense">>, <<"Net", "Income">>}

RuleEdits == {"delete", "toggle"}

Damages == {"unrecognized", "badzip"}

\* ledger and recurring rules: every handler but the budget ones, the
\* category and amount of a rule differing from those of a form entry
Next ==
    \/ AddIncome("Rent", "Food", 10)
    \/ AddExpense("Rent", "Food", 10)
    \/ \E t \in RuleTemplates, act \in BOOLEAN :
          ~HasRule(t[1], t[2]) /\ SaveRecurringRule(t[1], t[2], "Home", 25, act)
    \/ \E i \in GridRows, e \in RuleEdits : SaveRuleChanges(i, e)
    \/ \E m \in SelectedMonths, b \in BOOLEAN, c \in BOOLEAN :
          ApplyRecurring(m, b, c)
    \/ \E i \in GridRows : SaveTransactionChanges(i, "keep")
    \/ Tick

Spec == Init /\ [][Next]_vars

\* ledger and budgets
NextBudget ==
    \/ \E c \in Categories, a \in Amounts : AddIncome("Rent", c, a)
    \/ \E c \in Categories, a \in Amounts : AddExpense("Rent", c, a)
    \/ \E m \in SelectedMonths, c \in Categories : SaveBudget(m, c, 30)
    \/ \E i \in GridRows, e \in {"keep", "delete"} \cup Categories :
          SaveBudgetChanges(i, e)
    \/ \E i \in GridRows, e \in {"keep"} \cup Categories :
          SaveTransactionChanges(i, e)
    \/ Tick

SpecBudget == Init /\ [][NextBudget]_vars

\* the storage adapter under every handler that saves, with the file open
\* to damage from outside
NextStorage ==
    \/ AddIncome("Rent", "Home", 10)
    \/ AddExpense("Rent", "Home", 10)
    \/ \E act \in BOOLEAN :
          ~HasRule("Rent", "Expense") /\ SaveRecurringRule("Rent", "Expense", "Home", 25, act)
    \/ \E i \in GridRows, e \in RuleEdits : SaveRuleChanges(i, e)
    \/ \E m \in SelectedMonths : SaveBudget(m, "Home", 30)
    \/ \E i \in GridRows, e \in {"keep", "delete"} : SaveBudgetChanges(i, e)
    \/ \E m \in SelectedMonths : ApplyRecurring(m, TRUE, TRUE)
    \/ \E i \in GridRows : SaveTransactionChanges(i, "keep")
    \/ Tick
    \/ \E kind \in Damages : DamageFile(kind)

SpecStorage == Init /\ [][NextStorage]_vars

----------------------------------------------------------------------------
(* Properties of the recurring engine and the forecast, under Spec.        *)

\* the apply section and the forecast are rendered: lines 258 and 299
EngineShown ==
    /\ ~rules_df.raised /\ ~transactions.raised
    /\ rules_df.rows # <<>> /\ transactions.rows # <<>>

Ledger == transactions.rows

Rules == rules_df.rows

\* a transaction of the month with the name and the type of the rule
Materialized(rule, month) ==
    \E j \in 1..Len(Ledger) :
        /\ Ledger[j].Month = month
        /\ Ledger[j].Name = rule.Name
        /\ Ledger[j].Type = rule.Type

ActiveRuleIndices == {i \in 1..Len(Rules) : Rules[i].Active = TRUE}

\* the rules with a row in the preview on screen: none when the apply
\* section is not rendered for want of rules
ShownPreviewRules(month) ==
    IF EngineShown THEN PreviewRules(Ledger, Rules, month) ELSE <<>>

\* C1: for every ledger with a target month to offer and every rule set,
\* the preview of the month holds a row for a rule exactly when the rule is
\* active and no transaction of that month has its name and type; the rows
\* follow the rule order and carry the rule's name and type; category and
\* amount of the transactions play no part.
C1_PreviewDedup ==
    (~transactions.raised /\ ~rules_df.raised /\ Ledger # <<>>) =>
        \A month \in Range(TargetMonths(Ledger)) :
            \A kept \in {ShownPreviewRules(month)} :
                /\ Range(kept) =
                       {i \in ActiveRuleIndices : ~Materialized(Rules[i], month)}
                /\ \A k \in 1..Len(kept), l \in 1..Len(kept) : k < l => kept[k] < kept[l]
                /\ EngineShown =>
                       \A rows \in {Preview(Ledger, Rules, month)} :
                           /\ Len(rows) = Len(kept)
                           /\ \A k \in 1..Len(rows) :
                                  /\ rows[k].Name = Rules[kept[k]].Name
                                  /\ rows[k].Type = Rules[kept[k]].Type

\* C1 witness: an active rule is left out of the preview of a month because
\* of a transaction of its name and type whose category and amount differ
\* from the rule's, while another active rule is in the preview.
C1_Witness ==
    /\ EngineShown
    /\ \E month \in Range(TargetMonths(Ledger)), i \in 1..Len(Rules), j \in 1..Len(Ledger) :
          /\ Rules[i].Active
          /\ Ledger[j].Month = month
          /\ Ledger[j].Name = Rules[i].Name /\ Ledger[j].Type = Rules[i].Type
          /\ Ledger[j].Category # Rules[i].Category
          /\ Ledger[j].Amount # Rules[i].Amount
          /\ i \notin Range(PreviewRules(Ledger, Rules, month))
          /\ PreviewRules(Ledger, Rules, month) # <<>>

\* the rows of a table that no active rule accounts for
NotFromActiveRule(rows) ==
    {k \in 1..Len(rows) :
        ~\E i \in ActiveRuleIndices :
            /\ rows[k].Type = Rules[i].Type /\ rows[k].Name = Rules[i].Name
            /\ rows[k].Category = Rules[i].Category
            /\ rows[k].Amount = Rules[i].Amount}

NextCalendarMonth(month) ==
    IF month[2] = 12 THEN <<month[1] + 1, 1>> ELSE <<month[1], month[2] + 1>>

RECURSIVE CalendarAdd(_, _)
CalendarAdd(month, i) ==
    IF i = 0 THEN month ELSE NextCalendarMonth(CalendarAdd(month, i - 1))

\* month a is earlier in the calendar than month b
Earlier(a, b) == a[1] * 12 + a[2] < b[1] * 12 + b[2]

\* the latest month of the ledger
LatestLedgerMonth ==
    CHOOSE m \in {Ledger[j].Month : j \in 1..Len(Ledger)} :
        \A j \in 1..Len(Ledger) : ~Earlier(m, Ledger[j].Month)

\* the active rules, in the order of the rule sheet
ActiveRules == SelectSeq(Rules, LAMBDA rule : rule.Active = TRUE)

\* C5: with a non-empty ledger and rule set, the forecast for N months holds
\* exactly one row per (i, active rule), i in 1..N, month by month and in
\* rule order; its Month is the ledger's latest month plus i months of the
\* calendar (December followed by January of the next year) and it carries
\* the rule's Type, Name, Category and Amount; no row lies at or before the
\* latest month or beyond it by more than N.
C5_ForecastCoverage ==
    EngineShown =>
        \A months_ahead \in SliderMin..SliderMax :
            \A forecast \in {generate_forecast(Ledger, Rules, months_ahead)},
               active \in {ActiveRules}, latest \in {LatestLedgerMonth} :
                /\ Len(forecast) = months_ahead * Len(active)
                /\ \A i \in 1..months_ahead, k \in 1..Len(active) :
                       \A row \in {forecast[(i - 1) * Len(active) + k]} :
                           /\ row.Month = CalendarAdd(latest, i)
                           /\ row.Type = active[k].Type
                           /\ row.Name = active[k].Name
                           /\ row.Category = active[k].Category
                           /\ row.Amount = active[k].Amount
                /\ \A j \in 1..Len(forecast) :
                       /\ Earlier(latest, forecast[j].Month)
                       /\ ~Earlier(CalendarAdd(latest, months_ahead), forecast[j].Month)

\* C5 witness: the ledger holds transactions of two dates, two rules are
\* active, and the forecast of two months runs into the next year.
C5_Witness ==
    /\ EngineShown
    /\ Len(ActiveRules) >= 2
    /\ \E j \in 1..Len(Ledger) : Ledger[j].Date # Ledger[1].Date
    /\ LET forecast == generate_forecast(Ledger, Rules, 2)
       IN  /\ Len(forecast) = 4
           /\ forecast[1].Month[1] = LatestLedgerMonth[1]
           /\ forecast[4].Month[1] = LatestLedgerMonth[1] + 1

\* the last rerun applied the recurring rules to last.target
Applied ==
    /\ last.op = "apply" /\ last.button /\ last.confirm /\ ~last.raised

\* C10: right after a confirmed apply for a month, the month is still
\* offered as a target and its preview, computed from the reloaded ledger
\* and the unchanged rules, is empty: there is nothing to apply again (the
\* checkbox and the button are shown for a non-empty preview only).
C10_ApplyIdempotent ==
    Applied =>
        /\ ~transactions.raised /\ ~rules_df.raised
        /\ last.target \in Range(TargetMonths(Ledger))
        /\ Preview(Ledger, Rules, last.target) = <<>>

\* C10 witness: the rules were applied to the month after the ledger's
\* months, two of them active.
C10_Witness ==
    /\ Applied
    /\ Len(ActiveRules) >= 2
    /\ last.target # get_monthly_filename
    /\ Len(Ledger) >= 3

----------------------------------------------------------------------------
(* Properties of the steps that write the ledger, under Spec.              *)

TxOf(f) == f.sheets["Transactions"].rows

\* C2: a confirmed apply for month M appends to the ledger one transaction
\* per row of the preview of M, in preview order, each with the Type, Name,
\* Category and Amount of its rule and the first day of M as Date (so its
\* derived Month is M), and leaves every earlier transaction as it was.
C2_ApplyAddsPreview ==
    [][(last'.op = "apply" /\ last'.button /\ last'.confirm /\ ~last'.raised) =>
          \A kept \in {PreviewRules(Ledger, Rules, last'.target)} :
              /\ Len(TxOf(file')) = Len(TxOf(file)) + Len(kept)
              /\ SubSeq(TxOf(file'), 1, Len(TxOf(file))) = TxOf(file)
              /\ \A k \in 1..Len(kept) :
                     \A new \in {TxOf(file')[Len(TxOf(file)) + k]} :
                         /\ new.Type = Rules[kept[k]].Type
                         /\ new.Name = Rules[kept[k]].Name
                         /\ new.Category = Rules[kept[k]].Category
                         /\ new.Amount = Rules[kept[k]].Amount
                         /\ new.Date = <<last'.target[1], last'.target[2], 1>>
                         /\ MonthOf(new.Date) = last'.target
              /\ \A s \in SheetNames \ {"Transactions"} : file'.sheets[s] = file.sheets[s]
    ]_vars

\* C2 witness: one apply added two transactions behind an earlier one, in
\* a month the ledger did not reach before.
C2_Witness ==
    /\ Applied
    /\ Len(TxOf(file)) = 3
    /\ MonthOf(TxOf(file)[1].Date) # last.target
    /\ MonthOf(TxOf(file)[2].Date) = last.target
    /\ MonthOf(TxOf(file)[3].Date) = last.target
    /\ TxOf(file)[2].Name # TxOf(file)[3].Name

\* C3: a rerun of the apply section in which the button or the confirm flag
\* is false leaves the workbook as it was; the ledger changes in an apply
\* rerun only when both are true.
C3_ConfirmGate ==
    [][(last'.op = "apply" /\ ~(last'.button /\ last'.confirm)) =>
          /\ file' = file
          /\ last'.sheet = "none"
    ]_vars

\* C3 witness: the button was pressed without the confirm flag, with a
\* non-empty preview on screen.
C3_Witness ==
    /\ last.op = "apply" /\ last.button /\ ~last.confirm
    /\ EngineShown
    /\ \E month \in Range(TargetMonths(Ledger)) : Preview(Ledger, Rules, month) # <<>>

\* C8: a form's addTransaction appends exactly one record, with today's
\* date and the form's type, at the end of the Transactions collection and
\* keeps every stored transaction, in order; by induction n calls on an
\* empty store of one period leave exactly the n records in call order.
C8_AppendOnlyAdd ==
    [][(last'.op \in {"add_income", "add_expense"} /\ ~last'.raised) =>
          /\ Len(TxOf(file')) = Len(TxOf(file)) + 1
          /\ SubSeq(TxOf(file'), 1, Len(TxOf(file))) = TxOf(file)
          /\ TxOf(file')[Len(TxOf(file'))].Date = now
          /\ TxOf(file')[Len(TxOf(file'))].Type =
                 (IF last'.op = "add_income" THEN "Income" ELSE "Expense")
          /\ load_data(file', "Transactions").rows = TxOf(file')
    ]_vars

\* C8 witness: three form submissions in one period, the ledger holding
\* them in call order, the last differing from the first.
C8_Witness ==
    /\ last.op \in {"add_income", "add_expense"} /\ ~last.raised
    /\ Len(TxOf(file)) = 3
    /\ \A k \in 1..3 : TxOf(file)[k].Date = now
    /\ TxOf(file)[1] # TxOf(file)[3]
    /\ TxOf(file)[2] # TxOf(file)[3]

----------------------------------------------------------------------------
(* Budget against actual spend, under SpecBudget.                          *)

Budgets == budgets_df.rows

\* the comparison is rendered: lines 238-243
ComparisonShown ==
    /\ ~rules_df.raised /\ ~transactions.raised /\ ~budgets_df.raised
    /\ Budgets # <<>> /\ Ledger # <<>>

\* the indices of the budget rows of a month, in sheet order
BudgetIndices(month) ==
    SelectSeq([i \in 1..Len(Budgets) |-> i], LAMBDA i : Budgets[i].Month = month)

\* the ledger rows that count as spend of a category in a month
SpendIndices(month, category) ==
    {j \in 1..Len(Ledger) :
        /\ Ledger[j].Type = "Expense"
        /\ Ledger[j].Month = month
        /\ Ledger[j].Category = category}

RECURSIVE SpendOver(_)
SpendOver(indices) ==
    IF indices = {} THEN 0
    ELSE LET j == CHOOSE x \in indices : TRUE
         IN  Ledger[j].Amount + SpendOver(indices \ {j})

----------------------------------------------------------------------------
(* The storage adapter, under SpecStorage.                                 *)

\* C7: load never fails: it returns without an exception for every sheet,
\* and with no rows when the period file does not exist, when the sheet is
\* not in the file and when the file cannot be parsed.
C7_LenientLoad ==
    \A sheet \in SheetNames :
        /\ ~load_data(file, sheet).raised
        /\ (file.status # "ok" \/ ~file.sheets[sheet].present) =>
               load_data(file, sheet).rows = <<>>

\* C9: after a rerun whose save_data calls succeeded, loading the sheet
\* saved gives exactly the rows of the last call, and the other two sheets
\* load as they did before, whether the file existed or was created.
C9_SaveReplacesOneSheet ==
    [][(last'.sheet # "none" /\ ~last'.raised) =>
          /\ load_data(file', last'.sheet) = [raised |-> FALSE, rows |-> last'.rows]
          /\ \A other \in SheetNames \ {last'.sheet} :
                 load_data(file', other) = load_data(file, other)
    ]_vars

\* C9 witness: the Transactions sheet was saved over its earlier rows in a
\* file whose other two sheets hold rows.
C9_Witness ==
    /\ last.sheet = "Transactions" /\ ~last.raised
    /\ last.op = "save_tx_changes"
    /\ load_data(file, "Transactions").rows = last.rows
    /\ load_data(file, "RecurringRules").rows # <<>>
    /\ load_data(file, "Budgets").rows # <<>>

====
